---- MODULE Spec2Model ----
(***************************************************************************)
(* A model of the AI data analyst server (src/app.py): the chart data      *)
(* helper prepare_chart_data, the two language-model helpers               *)
(* get_ai_visualizations and get_ai_insights, the upload endpoint with its *)
(* global session pointer, and the chat endpoint that writes the generated *)
(* script to a shared temp file and runs it in a child process under a     *)
(* wall-clock timeout.                                                     *)
(*                                                                         *)
(* Python strings that the code inspects (column names, chart types) are   *)
(* sequences of words, so that the substring test `"Count of" in y_col`    *)
(* is computed and not looked up.  JSON values are tagged records.         *)
(***************************************************************************)
EXTENDS Integers, Sequences, FiniteSets, TLC

VARIABLES
    fnIn,                    \* arguments of the helper function under check
    fnOut,                   \* what that helper returned (Pending before the call)
    last_uploaded_filepath,  \* app.py:45, global
    csv_column_names,        \* app.py:46, global
    upload,                  \* the upload request in progress
    chat,                    \* the chat requests in progress, one per worker thread
    scratch                  \* content of <tempdir>/temp_chat_script.py

vars == <<fnIn, fnOut, last_uploaded_filepath, csv_column_names, upload, chat, scratch>>

serverVars == <<last_uploaded_filepath, csv_column_names, upload, chat, scratch>>

-----------------------------------------------------------------------------
(* Bounds of the model *)

MaxRows == 2        \* rows of a dataset
MaxResp == 4        \* tokens of a language-model response
MaxLines == 2       \* lines of a generated script
MaxOut == 2         \* characters of a child's stdout / stderr

-----------------------------------------------------------------------------
(* Generic helpers *)

Range(s) == {s[i] : i \in 1..Len(s)}

Min(a, b) == IF a <= b THEN a ELSE b

SeqsUpTo(S, n) == UNION {[1..k -> S] : k \in 0..n}

\* s[a:b] of Python for 0-based a, b with 0 <= a: the elements a+1 .. b
Slice(s, a, b) == IF b <= a THEN <<>> ELSE SubSeq(s, a + 1, Min(b, Len(s)))

-----------------------------------------------------------------------------
(* JSON values, as json.loads produces them *)

JNull == [t |-> "null"]
JStr(s) == [t |-> "str", s |-> s]
JNum(n) == [t |-> "num", n |-> n]
JArr(items) == [t |-> "arr", items |-> items]
JObj(f) == [t |-> "obj", f |-> f]

\* Python truthiness of a JSON value (`not x_col`, `if chart_data`)
Truthy(v) ==
    CASE v.t = "null" -> FALSE
      [] v.t = "str" -> Len(v.s) > 0
      [] v.t = "num" -> v.n # 0
      [] v.t = "arr" -> Len(v.items) > 0
      [] v.t = "obj" -> DOMAIN v.f # {}

\* hash(v) succeeds: lists and dicts are unhashable
Hashable(v) == v.t \in {"null", "str", "num"}

\* dict.get(key): None (JSON null) when the key is absent
Get(obj, key) == IF key \in DOMAIN obj.f THEN obj.f[key] ELSE JNull

-----------------------------------------------------------------------------
(* Datasets (pandas DataFrames) *)

Region == <<"Region">>
Sales == <<"Sales">>
Count == <<"Count">>
Nope == <<"Nope">>
CountOf(name) == <<"Count", "of">> \o name

NA == "<NA>"                \* a missing cell (NaN / JSON null)
TextValues == <<"N", "S">>  \* the text cells, in sort order
NumValues == <<1, 2>>       \* the numeric cells, in sort order

\* The two schemas of the model: a text column and a numeric column.  The
\* second names its text column "Count", the name reset_index(name='Count')
\* uses for the group sizes.
Schemas == {<<Region, Sales>>, <<Count, Sales>>}

\* the rows a schema admits: a text cell (or a missing one) and a number
RowsOf(columns) ==
    {[k \in Range(columns) |-> IF k = columns[1] THEN tv ELSE nv] :
        tv \in Range(TextValues) \cup {NA}, nv \in Range(NumValues)}

DataFramesOf(columns) ==
    {[columns |-> columns, numeric |-> {columns[2]}, rows |-> r] :
        r \in SeqsUpTo(RowsOf(columns), MaxRows)}

DataFrames == UNION {DataFramesOf(c) : c \in Schemas}

\* pd.api.types.is_numeric_dtype(df[col])
IsNumericDtype(df, col) == col \in df.numeric

\* the group keys of df.groupby(col): the distinct non-missing cells, sorted
GroupKeys(df, col) ==
    SelectSeq(IF IsNumericDtype(df, col) THEN NumValues ELSE TextValues,
              LAMBDA v : \E i \in 1..Len(df.rows) : df.rows[i][col] = v)

RECURSIVE SumWhere(_, _, _, _, _)
\* sum of column y over the rows from index i on whose x cell is key
SumWhere(rows, x, key, y, i) ==
    IF i > Len(rows) THEN 0
    ELSE (IF rows[i][x] = key THEN rows[i][y] ELSE 0) + SumWhere(rows, x, key, y, i + 1)

\* number of rows whose x cell is key
SizeWhere(rows, x, key) == Cardinality({i \in 1..Len(rows) : rows[i][x] = key})

\* df[cols] as records: to_json(orient='records') then json.loads
Project(rows, cols) == [i \in 1..Len(rows) |-> [k \in cols |-> rows[i][k]]]

\* df.sample(n): n rows drawn without replacement, in the drawn order
Samples(rows, n) ==
    {[i \in 1..n |-> rows[p[i]]] :
        p \in {q \in [1..n -> 1..Len(rows)] : \A a, b \in 1..n : a # b => q[a] # q[b]}}

-----------------------------------------------------------------------------
(* prepare_chart_data, app.py:49-84 *)

BarChart == <<"Bar", "Chart">>
PieChart == <<"Pie", "Chart">>
LineChart == <<"Line", "Chart">>
ScatterPlot == <<"Scatter", "Plot">>
Histogram == <<"Histogram">>
AreaChart == <<"Area", "Chart">>    \* a chart type the code does not know

SampleCap == 500

\* what a call of prepare_chart_data ends with
NoPayload == [kind |-> "none"]          \* return None
Raised == [kind |-> "raise"]            \* an exception reaches the caller
Payload(d) == [kind |-> "data", data |-> d]

\* the substring test `"Count of" in s` on a string
ContainsCountOf(s) == \E i \in 1..(Len(s) - 1) : s[i] = "Count" /\ s[i + 1] = "of"

\* `"Count of" in v` on any JSON value: substring of a string, element of a
\* list, key of a dict, TypeError on a number or None
CountOfIn(v) ==
    CASE v.t = "str" -> IF ContainsCountOf(v.s) THEN "yes" ELSE "no"
      [] v.t = "arr" -> IF JStr(<<"Count", "of">>) \in Range(v.items) THEN "yes" ELSE "no"
      [] v.t = "obj" -> IF "Count of" \in DOMAIN v.f THEN "yes" ELSE "no"
      [] OTHER -> "raise"

\* `v in df.columns`: Index.__contains__ hashes the key first
InColumns(v, df) ==
    IF ~Hashable(v) THEN "raise"
    ELSE IF v.t = "str" /\ v.s \in Range(df.columns) THEN "yes" ELSE "no"

\* app.py:54-59, the two checks made before the try block
ValidateColumns(df, x_col, y_col) ==
    IF ~Truthy(x_col) \/ ~Truthy(y_col) THEN "reject"
    ELSE IF InColumns(x_col, df) = "raise" THEN "raise"
    ELSE IF InColumns(x_col, df) = "no" THEN "reject"
    ELSE IF InColumns(y_col, df) = "raise" THEN "raise"
    ELSE IF InColumns(y_col, df) = "yes" THEN "pass"
    ELSE IF CountOfIn(y_col) = "raise" THEN "raise"
    ELSE IF CountOfIn(y_col) = "no" THEN "reject"
    ELSE "pass"

\* one record per group: {x: key, y: value of the group}
GroupRecords(df, x, y, value) ==
    LET keys == GroupKeys(df, x)
    IN  [i \in 1..Len(keys) |-> [k \in {x, y} |-> IF k = x THEN keys[i] ELSE value[keys[i]]]]

\* df.groupby(x).size()
GroupSizes(df, x) == [key \in Range(GroupKeys(df, x)) |-> SizeWhere(df.rows, x, key)]

\* df.groupby(x)[y].sum()
GroupSums(df, x, y) == [key \in Range(GroupKeys(df, x)) |-> SumWhere(df.rows, x, key, y, 1)]

\* AggregateData without the rename of app.py:66: the group sizes stay
\* under the name 'Count'
AggregateDataNoRename(df, x, y) ==
    IF ContainsCountOf(y)
    THEN IF x = Count
         THEN NoPayload
         ELSE Payload(GroupRecords(df, x, Count, GroupSizes(df, x)))
    ELSE IF IsNumericDtype(df, y)
         THEN IF x = y
              THEN NoPayload
              ELSE Payload(GroupRecords(df, x, y, GroupSums(df, x, y)))
         ELSE NoPayload

\* app.py:64-72, the Bar / Pie / Line branch; an exception raised here is
\* caught at app.py:82 and becomes None
AggregateData(df, x, y) ==
    IF ContainsCountOf(y)
    THEN IF x = Count \/ x = y
         THEN NoPayload     \* reset_index(name='Count') / to_json: duplicate column
         ELSE Payload(GroupRecords(df, x, y, GroupSizes(df, x)))
    ELSE IF IsNumericDtype(df, y)
         THEN IF x = y
              THEN NoPayload    \* reset_index: cannot insert x, already exists
              ELSE Payload(GroupRecords(df, x, y, GroupSums(df, x, y)))
         ELSE NoPayload

\* app.py:73-76, the Scatter branch: every sample that may be drawn
ScatterData(df, x, y) ==
    IF y \notin Range(df.columns) \/ x = y
    THEN {NoPayload}            \* KeyError / to_json: columns must be unique
    ELSE {Payload(Project(smp, {x, y})) :
            smp \in Samples(df.rows, Min(SampleCap, Len(df.rows)))}

\* app.py:77-79
HistogramData(df, x) == Payload(Project(df.rows, {x}))

\* app.py:49-84: the set of results a call may end with (more than one only
\* for the random sample of a scatter plot).  recipe is any JSON value.
prepare_chart_data(df, recipe) ==
    IF recipe.t # "obj" THEN {Raised}       \* recipe.get: AttributeError
    ELSE
    LET chart_type == Get(recipe, "chart_type")
        x_col == Get(recipe, "x_column")
        y_col == Get(recipe, "y_column")
        valid == ValidateColumns(df, x_col, y_col)
    IN  CASE valid = "raise" -> {Raised}
          [] valid = "reject" -> {NoPayload}
          [] OTHER ->
               IF chart_type \in {JStr(BarChart), JStr(PieChart), JStr(LineChart)}
               THEN {AggregateData(df, x_col.s, y_col.s)}
               ELSE IF chart_type = JStr(ScatterPlot)
               THEN ScatterData(df, x_col.s, y_col.s)
               ELSE IF chart_type = JStr(Histogram)
               THEN {HistogramData(df, x_col.s)}
               ELSE {NoPayload}

\* the values the model may put in a recipe's column field
FieldValues ==
    { JNull, JStr(<<>>), JStr(Region), JStr(Sales), JStr(Count), JStr(Nope),
      JStr(CountOf(Region)), JNum(5), JArr(<<JStr(Region)>>) }

ChartTypeValues ==
    { JNull, JStr(BarChart), JStr(PieChart), JStr(LineChart), JStr(ScatterPlot),
      JStr(Histogram), JStr(AreaChart) }

Recipe(ct, x, y) == JObj([chart_type |-> ct, x_column |-> x, y_column |-> y])

Recipes == {Recipe(ct, x, y) : ct \in ChartTypeValues, x \in FieldValues, y \in FieldValues}

Pending == [kind |-> "pending"]
NoCall == [fn |-> "none"]

-----------------------------------------------------------------------------
(* The server at rest: what the specifications of one part leave alone *)

NoFile == [t |-> "null"]    \* last_uploaded_filepath = None

Workers == {1, 2}           \* the threads that serve chat requests

NoChild == [state |-> "none"]

IdleUpload == [pc |-> "idle"]
IdleChat == [pc |-> "idle"]

ServerIdle ==
    /\ last_uploaded_filepath = NoFile
    /\ csv_column_names = <<>>
    /\ upload = IdleUpload
    /\ chat = [r \in Workers |-> IdleChat]
    /\ scratch = <<>>

-----------------------------------------------------------------------------
(* Specification of prepare_chart_data on every dataset and recipe *)

InitExtract ==
    /\ fnIn \in {[fn |-> "prepare_chart_data", df |-> df, recipe |-> rc] :
                    df \in DataFrames, rc \in Recipes}
    /\ fnOut = Pending
    /\ ServerIdle

CallExtract ==
    /\ fnIn.fn = "prepare_chart_data"
    /\ fnOut = Pending
    /\ fnOut' \in prepare_chart_data(fnIn.df, fnIn.recipe)
    /\ UNCHANGED <<fnIn, serverVars>>

SpecExtract == InitExtract /\ [][CallExtract]_vars

-----------------------------------------------------------------------------
(* A language-model reply: the call raises, or returns a text.  A text is a  *)
(* sequence of tokens: "[" , "]", a piece of prose, or one JSON value that   *)
(* is not an array (arrays are written with the brackets; the separating     *)
(* commas are left out).                                                     *)

LBracket == [t |-> "lbr"]
RBracket == [t |-> "rbr"]
Prose == [t |-> "prose"]

CallFailed == [ok |-> FALSE]                \* client.chat.completions.create raised
Reply(text) == [ok |-> TRUE, text |-> text]

TextsOver(tokens, extra) == SeqsUpTo({LBracket, RBracket, Prose} \cup tokens, MaxResp) \cup extra

RepliesOver(tokens, extra) == {CallFailed} \cup {Reply(tx) : tx \in TextsOver(tokens, extra)}

\* str.find / str.rfind of one token: the 0-based index, or -1
Find(text, tok) ==
    IF \E i \in 1..Len(text) : text[i] = tok
    THEN (CHOOSE i \in 1..Len(text) : text[i] = tok /\ \A j \in 1..(i - 1) : text[j] # tok) - 1
    ELSE -1

RFind(text, tok) ==
    IF \E i \in 1..Len(text) : text[i] = tok
    THEN (CHOOSE i \in 1..Len(text) : text[i] = tok /\ \A j \in (i + 1)..Len(text) : text[j] # tok) - 1
    ELSE -1

ParseFail == [ok |-> FALSE]

RECURSIVE ParseValue(_, _)
RECURSIVE ParseItems(_, _, _)
\* one JSON value from position i: the value and the position after it
ParseValue(toks, i) ==
    IF i > Len(toks) THEN ParseFail
    ELSE IF toks[i] = LBracket THEN ParseItems(toks, i + 1, <<>>)
    ELSE IF toks[i] \in {RBracket, Prose} THEN ParseFail
    ELSE [ok |-> TRUE, value |-> toks[i], next |-> i + 1]

\* the items of an array up to its closing bracket
ParseItems(toks, i, acc) ==
    IF i > Len(toks) THEN ParseFail
    ELSE IF toks[i] = RBracket THEN [ok |-> TRUE, value |-> JArr(acc), next |-> i + 1]
    ELSE LET r == ParseValue(toks, i)
         IN  IF r.ok THEN ParseItems(toks, r.next, Append(acc, r.value)) ELSE ParseFail

\* json.loads: one value and nothing after it, or a JSONDecodeError
JsonLoads(toks) ==
    LET r == ParseValue(toks, 1)
    IN  IF r.ok /\ r.next = Len(toks) + 1 THEN [ok |-> TRUE, value |-> r.value] ELSE ParseFail

\* app.py:129-135 and 194-200: the text from the first "[" to the last "]",
\* parsed; ValueError when a bracket is missing
ExtractJsonArray(text) ==
    LET start_index == Find(text, LBracket)
        end_index == RFind(text, RBracket)
    IN  IF start_index = -1 \/ end_index = -1 THEN ParseFail
        ELSE JsonLoads(Slice(text, start_index, end_index + 1))

-----------------------------------------------------------------------------
(* get_ai_visualizations, app.py:87-147 *)

ErrorObject == [kind |-> "error"]       \* {"error": "Failed to get AI analysis", ...}
Charts(list) == [kind |-> "charts", charts |-> list]
Chart(recipe, data) == [recipe |-> recipe, chart_data |-> data]

LoopRaised == [raised |-> TRUE]
LoopDone(list) == [raised |-> FALSE, list |-> list]

\* `if chart_data:` at app.py:140: None and the empty list are both falsy
KeepsChart(out) == out.kind = "data" /\ Len(out.data) > 0

RECURSIVE ChartLoop(_, _, _)
\* app.py:138-142 from entry i on: the lists the loop may build, or the
\* exception that leaves it
ChartLoop(df, recipes_list, i) ==
    IF i > Len(recipes_list) THEN {LoopDone(<<>>)}
    ELSE UNION {
            IF out = Raised THEN {LoopRaised}
            ELSE {IF rest.raised THEN LoopRaised
                  ELSE IF KeepsChart(out)
                       THEN LoopDone(<<Chart(recipes_list[i], out.data)>> \o rest.list)
                       ELSE rest :
                    rest \in ChartLoop(df, recipes_list, i + 1)} :
            out \in prepare_chart_data(df, recipes_list[i])}

\* get_ai_visualizations without the except clause of app.py:145-147
get_ai_visualizations_uncaught(df, reply) ==
    IF ~reply.ok THEN {Raised}
    ELSE LET parsed == ExtractJsonArray(reply.text)
         IN  IF ~parsed.ok THEN {Raised}
             ELSE {IF res.raised THEN Raised ELSE Charts(res.list) :
                    res \in ChartLoop(df, parsed.value.items, 1)}

\* app.py:117-147: every exception of the try block becomes the error object
get_ai_visualizations(df, reply) ==
    IF ~reply.ok THEN {ErrorObject}
    ELSE LET parsed == ExtractJsonArray(reply.text)
         IN  IF ~parsed.ok THEN {ErrorObject}
             ELSE {IF res.raised THEN ErrorObject ELSE Charts(res.list) :
                    res \in ChartLoop(df, parsed.value.items, 1)}

\* the datasets and replies the planner is run on
SalesFrame ==
    [columns |-> <<Region, Sales>>, numeric |-> {Sales},
     rows |-> << [k \in {Region, Sales} |-> IF k = Region THEN "N" ELSE 1],
                 [k \in {Region, Sales} |-> IF k = Region THEN "S" ELSE 2] >>]

EmptyFrame == [columns |-> <<Region, Sales>>, numeric |-> {Sales}, rows |-> <<>>]

PlannerFrames == {SalesFrame, EmptyFrame}

PlannerValues ==
    { Recipe(JStr(BarChart), JStr(Region), JStr(Sales)),        \* yields a payload
      Recipe(JStr(ScatterPlot), JStr(Region), JStr(Sales)),     \* yields a sample
      Recipe(JStr(BarChart), JStr(Nope), JStr(Sales)),          \* wrong column
      Recipe(JStr(BarChart), JStr(Region), JNum(5)),            \* malformed field
      JNum(7) }                                                 \* malformed entry

PlannerReplies == RepliesOver(PlannerValues, {})

InitPlanner ==
    /\ fnIn \in {[fn |-> "get_ai_visualizations", df |-> df, reply |-> rp] :
                    df \in PlannerFrames, rp \in PlannerReplies}
    /\ fnOut = Pending
    /\ ServerIdle

CallPlanner ==
    /\ fnIn.fn = "get_ai_visualizations"
    /\ fnOut = Pending
    /\ fnOut' \in get_ai_visualizations(fnIn.df, fnIn.reply)
    /\ UNCHANGED <<fnIn, serverVars>>

SpecPlanner == InitPlanner /\ [][CallPlanner]_vars

-----------------------------------------------------------------------------
(* get_ai_insights, app.py:150-205 *)

Apology == JStr(<<"Failed", "to", "generate", "insights.">>)

InsightLimit == 10

\* app.py:182-205: the parsed array as it is, or the one-element fallback
get_ai_insights(reply) ==
    IF ~reply.ok THEN <<Apology>>
    ELSE LET parsed == ExtractJsonArray(reply.text)
         IN  IF ~parsed.ok THEN <<Apology>> ELSE parsed.value.items

AnInsight == JStr(<<"Profit", "varies", "by", "region.">>)

\* a reply with one insight more than the prompt asks for
ElevenInsights == <<LBracket>> \o [i \in 1..(InsightLimit + 1) |-> AnInsight] \o <<RBracket>>

InsightValues == {AnInsight, JNum(7)}

InsightReplies == RepliesOver(InsightValues, {ElevenInsights})

InitInsights ==
    /\ fnIn \in {[fn |-> "get_ai_insights", reply |-> rp] : rp \in InsightReplies}
    /\ fnOut = Pending
    /\ ServerIdle

CallInsights ==
    /\ fnIn.fn = "get_ai_insights"
    /\ fnOut = Pending
    /\ fnOut' = [kind |-> "list", list |-> get_ai_insights(fnIn.reply)]
    /\ UNCHANGED <<fnIn, serverVars>>

SpecInsights == InitInsights /\ [][CallInsights]_vars

-----------------------------------------------------------------------------
(* upload_file, app.py:209-269.  The handler runs in three steps, cut at its *)
(* two blocking language-model calls.                                        *)

Pointer == <<last_uploaded_filepath, csv_column_names>>

\* os.path.abspath(os.path.join(UPLOAD_FOLDER, filename)), app.py:222 and 234
AbsPath(filename) == JStr(<<"/srv/app", "uploads", filename>>)

RECURSIVE JoinColumns(_)
\* ", ".join(original_df.columns), app.py:235
JoinColumns(columns) ==
    IF Len(columns) = 0 THEN <<>>
    ELSE IF Len(columns) = 1 THEN columns[1]
    ELSE columns[1] \o <<", ">> \o JoinColumns(Tail(columns))

\* what the request carries
NoFilePart == [has_file |-> FALSE]
FilePart(filename, content) == [has_file |-> TRUE, filename |-> filename, content |-> content]
Unreadable == [readable |-> FALSE]          \* file.save or pd.read_csv raises
Readable(df) == [readable |-> TRUE, df |-> df]

CountFrame ==
    [columns |-> <<Count, Sales>>, numeric |-> {Sales},
     rows |-> << [k \in {Count, Sales} |-> IF k = Count THEN "N" ELSE 2] >>]

UploadRequests ==
    { NoFilePart, FilePart("", Unreadable), FilePart("a.csv", Unreadable),
      FilePart("a.csv", Readable(SalesFrame)), FilePart("b.csv", Readable(CountFrame)) }

UploadError(status, message) == [status |-> status, error |-> message]

UploadOk(charts, insights) ==
    [status |-> 200, charts |-> charts, insights |-> insights,
     filepath |-> last_uploaded_filepath, columns |-> csv_column_names]

UploadDone(before, calls, failed, resp) ==
    [pc |-> "done", before |-> before, calls |-> calls, failed |-> failed, resp |-> resp]

\* history: the planner met a failure on this reply (the call failed, the
\* reply held no parsable array, or an entry made the extractor raise)
PlannerFails(df, reply) ==
    \/ ~reply.ok
    \/ ~ExtractJsonArray(reply.text).ok
    \/ \E i \in 1..Len(ExtractJsonArray(reply.text).value.items) :
            Raised \in prepare_chart_data(df, ExtractJsonArray(reply.text).value.items[i])

\* app.py:212-251 and 267-269: up to the first language-model call.  The
\* globals are assigned at 234-235, before the preparation of 238-251, whose
\* exceptions the handler of 267 turns into a 500.
UploadReceive(requests) ==
    /\ upload.pc = "idle"
    /\ \E rq \in requests :
        IF ~rq.has_file
        THEN /\ upload' = UploadDone(Pointer, <<>>, FALSE, UploadError(400, "No file part in the request"))
             /\ UNCHANGED <<last_uploaded_filepath, csv_column_names>>
        ELSE IF rq.filename = ""
        THEN /\ upload' = UploadDone(Pointer, <<>>, FALSE, UploadError(400, "No file selected"))
             /\ UNCHANGED <<last_uploaded_filepath, csv_column_names>>
        ELSE IF ~rq.content.readable
        THEN /\ upload' = UploadDone(Pointer, <<>>, FALSE, UploadError(500, "Could not process file"))
             /\ UNCHANGED <<last_uploaded_filepath, csv_column_names>>
        ELSE /\ last_uploaded_filepath' = AbsPath(rq.filename)
             /\ csv_column_names' = JoinColumns(rq.content.df.columns)
             /\ \E prepared \in BOOLEAN :
                    upload' = IF prepared
                              THEN [pc |-> "planner", before |-> Pointer, df |-> rq.content.df]
                              ELSE UploadDone(Pointer, <<>>, FALSE,
                                              UploadError(500, "Could not process file"))
    /\ UNCHANGED <<fnIn, fnOut, chat, scratch>>

\* app.py:254: get_ai_visualizations returns; an exception it let through
\* would reach the handler of app.py:267
UploadPlanner(replies) ==
    /\ upload.pc = "planner"
    /\ \E reply \in replies : \E charts \in get_ai_visualizations(upload.df, reply) :
        upload' = IF charts = Raised
                  THEN UploadDone(upload.before, <<"get_ai_visualizations">>,
                                  PlannerFails(upload.df, reply),
                                  UploadError(500, "Could not process file"))
                  ELSE [pc |-> "insights", before |-> upload.before, charts |-> charts,
                        failed |-> PlannerFails(upload.df, reply)]
    /\ UNCHANGED <<fnIn, fnOut, last_uploaded_filepath, csv_column_names, chat, scratch>>

\* app.py:255-265: get_ai_insights returns and the response is built
UploadInsights(replies) ==
    /\ upload.pc = "insights"
    /\ \E reply \in replies :
        upload' = UploadDone(upload.before, <<"get_ai_visualizations", "get_ai_insights">>,
                             upload.failed, UploadOk(upload.charts, get_ai_insights(reply)))
    /\ UNCHANGED <<fnIn, fnOut, last_uploaded_filepath, csv_column_names, chat, scratch>>

\* the response is sent and the worker takes the next request
UploadReturn ==
    /\ upload.pc = "done"
    /\ upload' = IdleUpload
    /\ UNCHANGED <<fnIn, fnOut, last_uploaded_filepath, csv_column_names, chat, scratch>>

\* the replies the upload path is run on
UploadPlannerValues ==
    { Recipe(JStr(BarChart), JStr(Region), JStr(Sales)),
      Recipe(JStr(BarChart), JStr(Region), JNum(5)) }

UploadPlannerReplies == RepliesOver(UploadPlannerValues, {})
UploadInsightReplies == RepliesOver({AnInsight}, {})

InitServer ==
    /\ fnIn = NoCall
    /\ fnOut = Pending
    /\ ServerIdle

NextUpload ==
    \/ UploadReceive(UploadRequests)
    \/ UploadPlanner(UploadPlannerReplies)
    \/ UploadInsights(UploadInsightReplies)
    \/ UploadReturn

SpecUpload == InitServer /\ [][NextUpload]_vars

-----------------------------------------------------------------------------
(* chat_with_data, app.py:272-407.  A worker's request is cut at its         *)
(* blocking points (the language-model call, the child process) and between  *)
(* writing the script file and starting the child, where another worker may  *)
(* run.  Whether and when the child exits is the environment's choice: the   *)
(* budget of timeout=15 (app.py:382) elapses while it still runs, or not.    *)

\* the request body: data.get(field) is None for a missing field
Body(question, filepath, columns) ==
    [question |-> question, filepath |-> filepath, columns |-> columns]

AQuestion == JStr(<<"Why", "did", "profit", "drop?">>)
AFilepath == AbsPath("a.csv")
AColumns == JStr(JoinColumns(<<Region, Sales>>))

ChatBodies ==
    {Body(q, f, c) : q \in {JNull, JStr(<<>>), AQuestion},
                     f \in {JNull, JStr(<<>>), AFilepath},
                     c \in {JNull, JStr(<<>>), AColumns}}

\* the lines of a completion; a fence is the line of three backquotes that
\* opens or closes a markdown code block
FencePy == "<fence>python"
Fence == "<fence>"
CodeLine == "print(df['Profit'].sum())"
Lines == {FencePy, Fence, CodeLine}

Completions == SeqsUpTo(Lines, MaxLines)

\* the characters of a child's output: a letter and a whitespace
Chars == {"a", " "}
IsSpace(c) == c = " "
Texts == SeqsUpTo(Chars, MaxOut)

RECURSIVE LStrip(_)
LStrip(s) == IF s # <<>> /\ IsSpace(Head(s)) THEN LStrip(Tail(s)) ELSE s

RECURSIVE RStrip(_)
RStrip(s) == IF s # <<>> /\ IsSpace(s[Len(s)]) THEN RStrip(SubSeq(s, 1, Len(s) - 1)) ELSE s

\* str.strip(): whitespace removed at both ends
Strip(s) == LStrip(RStrip(s))

\* how a child ends within the budget
Outcome(code, out, err) == [code |-> code, out |-> out, err |-> err]
Outcomes == {Outcome(code, out, err) : code \in {0, 1}, out \in Texts, err \in Texts}

\* the responses of the endpoint: a status and the answer, as the fixed
\* message and the text embedded in it
ChatResponse(status, message, text) == [status |-> status, message |-> message, text |-> text]

NeedQuestion == ChatResponse(400, "You must ask a question.", <<>>)
NeedUpload ==
    ChatResponse(400, "I'm sorry, I can't answer questions. Please upload a CSV file first.", <<>>)
Answer(text) == ChatResponse(200, "{final_answer}", text)
NoOutput ==
    ChatResponse(200, "I'm sorry, I ran the code but it didn't produce an answer. Please try rephrasing your question.", <<>>)
TimedOut ==
    ChatResponse(500, "I'm sorry, the calculation took too long to run and was stopped. Please ask a simpler question.", <<>>)
ScriptFailed(text) ==
    ChatResponse(500, "I'm sorry, the AI's code failed to run. (Error: {e.stderr.strip()})", text)
InternalError(text) ==
    ChatResponse(500, "I'm sorry, I encountered an error. The AI's code may have failed. (Error: {e})", text)

ConnectionError == <<"Connection error.">>              \* str(e) of a failed model call
LaunchError == <<"[Errno 2] No such file or directory">> \* str(e) of a failed launch

\* the request's record once its response is built.  stage is the last thing
\* the handler started; run is how subprocess.run ended, if it was called
ChatDone(body, stage, script, run, child, resp) ==
    [pc |-> "done", body |-> body, stage |-> stage, script |-> script, run |-> run,
     child |-> child, resp |-> resp]

NoRun == [how |-> "none"]
RunExit(o) == [how |-> "exit", code |-> o.code, out |-> o.out, err |-> o.err]
RunTimeout == [how |-> "timeout"]
RunLaunchFailed == [how |-> "launch_failed"]

\* ChatReceive without the `not filepath` test of app.py:286
ChatReceiveNoFileCheck(r, bodies) ==
    /\ chat[r].pc = "idle"
    /\ \E body \in bodies :
        chat' = [chat EXCEPT ![r] =
            IF ~Truthy(body.question)
            THEN ChatDone(body, "validate", <<>>, NoRun, NoChild, NeedQuestion)
            ELSE IF ~Truthy(body.columns)
            THEN ChatDone(body, "validate", <<>>, NoRun, NoChild, NeedUpload)
            ELSE [pc |-> "llm", body |-> body]]
    /\ UNCHANGED <<fnIn, fnOut, last_uploaded_filepath, csv_column_names, upload, scratch>>

\* app.py:275-287: the two validations, in the order of the code
ChatReceive(r, bodies) ==
    /\ chat[r].pc = "idle"
    /\ \E body \in bodies :
        chat' = [chat EXCEPT ![r] =
            IF ~Truthy(body.question)
            THEN ChatDone(body, "validate", <<>>, NoRun, NoChild, NeedQuestion)
            ELSE IF ~Truthy(body.filepath) \/ ~Truthy(body.columns)
            THEN ChatDone(body, "validate", <<>>, NoRun, NoChild, NeedUpload)
            ELSE [pc |-> "llm", body |-> body]]
    /\ UNCHANGED <<fnIn, fnOut, last_uploaded_filepath, csv_column_names, upload, scratch>>

\* app.py:352-368: the completion arrives and is written, as it is, to the
\* one script path; a failed model call goes to the handler of app.py:404
ChatSynthesize(r, completions) ==
    /\ chat[r].pc = "llm"
    /\ \/ /\ chat' = [chat EXCEPT ![r] =
                ChatDone(chat[r].body, "llm", <<>>, NoRun, NoChild, InternalError(ConnectionError))]
          /\ UNCHANGED scratch
       \/ \E python_code_to_run \in completions :
            /\ scratch' = python_code_to_run
            /\ chat' = [chat EXCEPT ![r] =
                    [pc |-> "written", body |-> chat[r].body,
                     completion |-> python_code_to_run, script |-> python_code_to_run]]
    /\ UNCHANGED <<fnIn, fnOut, last_uploaded_filepath, csv_column_names, upload>>

\* ChatSpawn with a script of the request's own: the child runs what this
\* request wrote, whatever the script path holds now
ChatSpawnOwnScript(r) ==
    /\ chat[r].pc = "written"
    /\ \/ chat' = [chat EXCEPT ![r] =
                [pc |-> "running", body |-> chat[r].body, script |-> chat[r].script,
                 child |-> [state |-> "running", script |-> chat[r].script]]]
       \/ chat' = [chat EXCEPT ![r] =
                ChatDone(chat[r].body, "spawn", chat[r].script, RunLaunchFailed, NoChild,
                         InternalError(LaunchError))]
    /\ UNCHANGED <<fnIn, fnOut, last_uploaded_filepath, csv_column_names, upload, scratch>>

\* app.py:376-383: the child is started on whatever the script path holds
\* now; a launch that fails goes to the handler of app.py:404
ChatSpawn(r) ==
    /\ chat[r].pc = "written"
    /\ \/ chat' = [chat EXCEPT ![r] =
                [pc |-> "running", body |-> chat[r].body, script |-> chat[r].script,
                 child |-> [state |-> "running", script |-> scratch]]]
       \/ chat' = [chat EXCEPT ![r] =
                ChatDone(chat[r].body, "spawn", chat[r].script, RunLaunchFailed, NoChild,
                         InternalError(LaunchError))]
    /\ UNCHANGED <<fnIn, fnOut, last_uploaded_filepath, csv_column_names, upload, scratch>>

\* FinalAnswer with rstrip() in place of strip()
FinalAnswerTrailingOnly(stdout) ==
    LET final_answer == RStrip(stdout)
    IN  IF final_answer = <<>> THEN NoOutput ELSE Answer(final_answer)

\* app.py:386-390: the answer made of the child's stdout
FinalAnswer(stdout) ==
    LET final_answer == Strip(stdout)
    IN  IF final_answer = <<>> THEN NoOutput ELSE Answer(final_answer)

\* app.py:376-403: subprocess.run with check=True on a child that ended
RunResponse(o) ==
    IF o.code # 0 THEN ScriptFailed(Strip(o.err)) ELSE FinalAnswer(o.out)

\* the child ends within the budget and the handler answers
ChatExit(r, outcomes) ==
    /\ chat[r].pc = "running"
    /\ \E o \in outcomes :
        chat' = [chat EXCEPT ![r] =
            ChatDone(chat[r].body, "run", chat[r].script, RunExit(o),
                     [state |-> "exited", script |-> chat[r].child.script], RunResponse(o))]
    /\ UNCHANGED <<fnIn, fnOut, last_uploaded_filepath, csv_column_names, upload, scratch>>

\* the budget elapses with the child still running: communicate raises
\* TimeoutExpired inside subprocess.run
ChatExpire(r) ==
    /\ chat[r].pc = "running"
    /\ chat' = [chat EXCEPT ![r].pc = "expired"]
    /\ UNCHANGED <<fnIn, fnOut, last_uploaded_filepath, csv_column_names, upload, scratch>>

\* the child ends by itself after the budget, before it is killed
ChildExitsLate(r) ==
    /\ chat[r].pc = "expired"
    /\ chat[r].child.state = "running"
    /\ chat' = [chat EXCEPT ![r].child.state = "exited"]
    /\ UNCHANGED <<fnIn, fnOut, last_uploaded_filepath, csv_column_names, upload, scratch>>

\* ChatKill without the kill: the handler answers and leaves the child alone
ChatKillLeavesChild(r) ==
    /\ chat[r].pc = "expired"
    /\ chat' = [chat EXCEPT ![r] =
            ChatDone(chat[r].body, "run", chat[r].script, RunTimeout, chat[r].child, TimedOut)]
    /\ UNCHANGED <<fnIn, fnOut, last_uploaded_filepath, csv_column_names, upload, scratch>>

\* subprocess.run kills the child, waits for it and re-raises; app.py:397-399
\* answers
ChatKill(r) ==
    /\ chat[r].pc = "expired"
    /\ chat' = [chat EXCEPT ![r] =
            ChatDone(chat[r].body, "run", chat[r].script, RunTimeout,
                     [state |-> IF chat[r].child.state = "running" THEN "killed" ELSE "exited",
                      script |-> chat[r].child.script],
                     TimedOut)]
    /\ UNCHANGED <<fnIn, fnOut, last_uploaded_filepath, csv_column_names, upload, scratch>>

\* the response is sent and the worker takes the next request
ChatReturn(r) ==
    /\ chat[r].pc = "done"
    /\ chat' = [chat EXCEPT ![r] = IdleChat]
    /\ UNCHANGED <<fnIn, fnOut, last_uploaded_filepath, csv_column_names, upload, scratch>>

\* one worker serving chat requests, on every body, completion and outcome
NextChat ==
    \/ ChatReceive(1, ChatBodies)
    \/ ChatSynthesize(1, Completions)
    \/ ChatSpawn(1)
    \/ ChatExit(1, Outcomes)
    \/ ChatExpire(1)
    \/ ChildExitsLate(1)
    \/ ChatKill(1)
    \/ ChatReturn(1)

SpecChat == InitServer /\ [][NextChat]_vars

\* the same worker under the scheduling the code has: a handler whose
\* subprocess.run timed out keeps running (kill, wait, re-raise, respond)
FairChat == SpecChat /\ WF_vars(ChatKill(1))

-----------------------------------------------------------------------------
(* The whole server: the upload endpoint and two chat workers side by side,  *)
(* on a few requests of each kind                                            *)

SomeBodies == {Body(AQuestion, AFilepath, AColumns), Body(AQuestion, JNull, AColumns)}
SomeCompletions == {<<CodeLine>>, <<FencePy, CodeLine>>}
SomeOutcomes == {Outcome(0, <<"a">>, <<>>), Outcome(1, <<>>, <<"a">>)}

SomeUploads == {NoFilePart, FilePart("a.csv", Unreadable), FilePart("a.csv", Readable(SalesFrame))}
SomePlannerReplies ==
    { CallFailed,
      Reply(<<LBracket, Recipe(JStr(BarChart), JStr(Region), JStr(Sales)), RBracket>>) }
SomeInsightReplies == {CallFailed, Reply(<<LBracket, AnInsight, RBracket>>)}

NextServerUpload ==
    \/ UploadReceive(SomeUploads)
    \/ UploadPlanner(SomePlannerReplies)
    \/ UploadInsights(SomeInsightReplies)
    \/ UploadReturn

NextServerChat(r) ==
    \/ ChatReceive(r, SomeBodies)
    \/ ChatSynthesize(r, SomeCompletions)
    \/ ChatSpawn(r)
    \/ ChatExit(r, SomeOutcomes)
    \/ ChatExpire(r)
    \/ ChildExitsLate(r)
    \/ ChatKill(r)
    \/ ChatReturn(r)

Init == InitServer

Next == NextServerUpload \/ \E r \in Workers : NextServerChat(r)

Spec == Init /\ [][Next]_vars

-----------------------------------------------------------------------------
(* Claims about prepare_chart_data, checked under SpecExtract *)

Called == fnOut # Pending

IsColumn(df, v) == v.t = "str" /\ v.s \in Range(df.columns)
IsMarker(v) == v.t = "str" /\ ContainsCountOf(v.s)

\* a column field of the recipe holds a value that is no column of the
\* dataset (and, for y_column, no "Count of" marker either)
ReferencesMissingColumn(df, recipe) ==
    LET x == Get(recipe, "x_column")
        y == Get(recipe, "y_column")
    IN  \/ x # JNull /\ ~IsColumn(df, x)
        \/ y # JNull /\ ~IsColumn(df, y) /\ ~IsMarker(y)

\* C5: a recipe whose x_column or y_column names a column that is not in the
\* dataset makes prepare_chart_data return None, and never raise, for every
\* chart type and every value of those fields.
C5_MissingColumnGivesNone ==
    (Called /\ ReferencesMissingColumn(fnIn.df, fnIn.recipe)) => fnOut = NoPayload

Aggregating == {JStr(BarChart), JStr(PieChart), JStr(LineChart)}

\* the recipes C6 is about: a supported chart type, an existing x_column, and
\* a y_column that is a numeric column or a marker for the summed types, an
\* existing column for a scatter plot, anything of the two for a histogram
ValidRecipe(df, recipe) ==
    LET ct == Get(recipe, "chart_type")
        x == Get(recipe, "x_column")
        y == Get(recipe, "y_column")
    IN  /\ IsColumn(df, x)
        /\ \/ ct \in Aggregating /\ (IsMarker(y) \/ (IsColumn(df, y) /\ IsNumericDtype(df, y.s)))
           \/ ct = JStr(ScatterPlot) /\ IsColumn(df, y)
           \/ ct = JStr(Histogram) /\ (IsColumn(df, y) \/ IsMarker(y))

\* the key set the claim expects of every record
ExpectedKeys(recipe) ==
    IF Get(recipe, "chart_type") = JStr(Histogram)
    THEN {Get(recipe, "x_column").s}
    ELSE {Get(recipe, "x_column").s, Get(recipe, "y_column").s}

NonEmptyWithKeys(out, keys) ==
    /\ out.kind = "data"
    /\ Len(out.data) > 0
    /\ \A i \in 1..Len(out.data) : DOMAIN out.data[i] = keys

\* C6 as stated: every valid recipe, on every dataset and also with x_column
\* equal to y_column, yields a non-empty list of records whose key set is
\* exactly {x_column, resolved y field} ({x_column} for a histogram).
C6_Original ==
    (Called /\ ValidRecipe(fnIn.df, fnIn.recipe))
        => NonEmptyWithKeys(fnOut, ExpectedKeys(fnIn.recipe))

\* what the amended claim adds: there is data to show (a row, and for the
\* grouped types a row whose x cell is not missing), the two columns differ
\* unless the chart is a histogram, and a counted x_column is not named Count
HasData(df, recipe) ==
    IF Get(recipe, "chart_type") \in Aggregating
    THEN \E i \in 1..Len(df.rows) :
            \/ IsNumericDtype(df, Get(recipe, "x_column").s)
            \/ df.rows[i][Get(recipe, "x_column").s] # NA
    ELSE Len(df.rows) > 0

DistinctFields(recipe) ==
    \/ Get(recipe, "chart_type") = JStr(Histogram)
    \/ /\ Get(recipe, "x_column") # Get(recipe, "y_column")
       /\ ~(IsMarker(Get(recipe, "y_column")) /\ Get(recipe, "x_column") = JStr(Count))

\* C6 (amended): a valid recipe whose two columns differ, on a dataset that has
\* a row to show, yields a non-empty list of records whose key set is exactly
\* {x_column, resolved y field} ({x_column} for a histogram).
C6_ValidRecipePayload ==
    (Called /\ ValidRecipe(fnIn.df, fnIn.recipe) /\ HasData(fnIn.df, fnIn.recipe)
        /\ DistinctFields(fnIn.recipe))
        => NonEmptyWithKeys(fnOut, ExpectedKeys(fnIn.recipe))

\* a counted bar chart over two regions has come back with its two records
C6_Witness ==
    /\ Called
    /\ fnIn.recipe = Recipe(JStr(BarChart), JStr(Region), JStr(CountOf(Region)))
    /\ fnOut.kind = "data"
    /\ Len(fnOut.data) = 2
    /\ DOMAIN fnOut.data[1] = {Region, CountOf(Region)}

-----------------------------------------------------------------------------
(* Claims about the two language-model helpers *)

\* the reply is a text whose bracketed part parses to a JSON array
ParsesToArray(reply) == reply.ok /\ ExtractJsonArray(reply.text).ok

\* the entries of the parsed array for which extraction yields a payload
EntriesWithPayload(df, reply) ==
    SelectSeq(ExtractJsonArray(reply.text).value.items,
              LAMBDA e : \E out \in prepare_chart_data(df, e) : out.kind = "data")

\* C10: when the reply parses to a JSON array, the chart list returned is
\* exactly the subsequence, in the model's order, of the entries for which
\* extraction yields a payload; a bad entry only drops itself.
C10_BadEntryOnlyDropsItself ==
    (Called /\ fnIn.fn = "get_ai_visualizations" /\ ParsesToArray(fnIn.reply))
        => /\ fnOut.kind = "charts"
           /\ [i \in 1..Len(fnOut.charts) |-> fnOut.charts[i].recipe]
                = EntriesWithPayload(fnIn.df, fnIn.reply)

\* C9: get_ai_insights returns, without raising, a list of at most 10
\* elements, each a string; when the call fails or the reply does not parse
\* as a bracketed JSON array, the list is the single fixed apology.
C9_InsightsBoundedStrings ==
    (Called /\ fnIn.fn = "get_ai_insights")
        => /\ fnOut.kind = "list"
           /\ Len(fnOut.list) <= InsightLimit
           /\ \A i \in 1..Len(fnOut.list) : fnOut.list[i].t = "str"
           /\ ~ParsesToArray(fnIn.reply) => fnOut.list = <<Apology>>

-----------------------------------------------------------------------------
(* Claims about the chat endpoint *)

\* the request of worker r was validated and its script was launched (or
\* the launch was tried)
Launched(r) == chat[r].pc = "done" /\ chat[r].run.how # "none"

AllSpace(s) == \A i \in 1..Len(s) : IsSpace(s[i])

\* t is s without its trailing whitespace
IsRightTrimOf(t, s) ==
    /\ (t # <<>> => ~IsSpace(t[Len(t)]))
    /\ \E k \in 0..Len(s) : t = SubSeq(s, 1, k) /\ AllSpace(SubSeq(s, k + 1, Len(s)))

\* t is s without its leading and trailing whitespace
IsTrimOf(t, s) ==
    /\ (t # <<>> => ~IsSpace(t[1]) /\ ~IsSpace(t[Len(t)]))
    /\ \E j \in 1..(Len(s) + 1) : \E k \in (j - 1)..Len(s) :
            /\ t = SubSeq(s, j, k)
            /\ AllSpace(SubSeq(s, 1, j - 1))
            /\ AllSpace(SubSeq(s, k + 1, Len(s)))

\* the four outcomes that do not depend on how stdout is trimmed
OtherOutcomes(run, resp) ==
    /\ run.how = "timeout" => resp = TimedOut
    /\ (run.how = "exit" /\ run.code # 0)
            => resp.status = 500 /\ \E e \in Texts : resp = ScriptFailed(e) /\ IsTrimOf(e, run.err)
    /\ run.how = "launch_failed" => resp = InternalError(LaunchError)

\* C1 as stated: a launched request is answered by the one case its child
\* falls in; exit 0 with non-empty stdout gives 200 and the stdout without
\* its trailing whitespace, exit 0 with empty stdout the fixed no-output
\* message, a timeout, a non-zero exit and a failed launch their 500s.
C1_Original ==
    \A r \in Workers : Launched(r) =>
        LET run == chat[r].run
            resp == chat[r].resp
        IN  /\ (run.how = "exit" /\ run.code = 0 /\ run.out # <<>>)
                    => resp.status = 200 /\ \E t \in Texts : resp = Answer(t) /\ IsRightTrimOf(t, run.out)
            /\ (run.how = "exit" /\ run.code = 0 /\ run.out = <<>>) => resp = NoOutput
            /\ OtherOutcomes(run, resp)

\* C1 (amended): exit 0 gives 200 with the stdout stripped of leading and
\* trailing whitespace when that leaves something, and the fixed no-output
\* message when stdout is empty or all whitespace; the other cases as stated.
C1_OutcomeDecidesResponse ==
    \A r \in Workers : Launched(r) =>
        LET run == chat[r].run
            resp == chat[r].resp
        IN  /\ (run.how = "exit" /\ run.code = 0 /\ ~AllSpace(run.out))
                    => resp.status = 200 /\ \E t \in Texts : resp = Answer(t) /\ IsTrimOf(t, run.out)
            /\ (run.how = "exit" /\ run.code = 0 /\ AllSpace(run.out)) => resp = NoOutput
            /\ OtherOutcomes(run, resp)

\* a child printed " a" and the answer is "a"
C1_Witness ==
    /\ Launched(1)
    /\ chat[1].run = RunExit(Outcome(0, <<" ", "a">>, <<>>))
    /\ chat[1].resp = Answer(<<"a">>)

\* C2: once the budget has elapsed with the child still running, the request
\* returns, its outcome is the timeout, and when the response is returned the
\* child is not running.
C2_TimeoutKillsAndReturns ==
    [](chat[1].pc = "expired"
        => <>(/\ chat[1].pc = "done"
              /\ chat[1].resp = TimedOut
              /\ chat[1].child.state \in {"killed", "exited"}))

\* a request has answered with the timeout and its child was killed
C2_Witness ==
    /\ chat[1].pc = "done"
    /\ chat[1].run = RunTimeout
    /\ chat[1].resp = TimedOut
    /\ chat[1].child.state = "killed"

\* the request of worker r is in progress and its body has no filepath
OmitsFilepath(r) == chat[r].pc # "idle" /\ chat[r].body.filepath = JNull

\* nothing was started for the request of worker r beyond the validation
NothingStarted(r) ==
    /\ chat[r].pc = "done"
    /\ chat[r].stage = "validate"
    /\ chat[r].run = NoRun
    /\ chat[r].child = NoChild

\* C3 as stated: a request without filepath gets 400 and the upload-first
\* message whatever its question is, and nothing is started for it.
C3_Original ==
    \A r \in Workers : OmitsFilepath(r) => NothingStarted(r) /\ chat[r].resp = NeedUpload

\* C3 (amended): a request without filepath gets 400 and nothing is started
\* for it; the message is the upload-first one when the question is not
\* empty, and "You must ask a question." when it is empty or missing.
C3_MissingFilepathRejected ==
    \A r \in Workers : OmitsFilepath(r) =>
        /\ NothingStarted(r)
        /\ chat[r].resp.status = 400
        /\ chat[r].resp = IF Truthy(chat[r].body.question) THEN NeedUpload ELSE NeedQuestion

\* a request with a question and no filepath got the upload-first message
C3_Witness ==
    /\ OmitsFilepath(1)
    /\ chat[1].body.question = AQuestion
    /\ chat[1].resp = NeedUpload

IsFence(line) == line \in {Fence, FencePy}

\* C7: the script written to the scratch file never begins with a fence line
\* nor ends with one, whatever the completion was.
C7_ScriptHasNoFence ==
    \A r \in Workers : chat[r].pc = "written" =>
        \/ chat[r].script = <<>>
        \/ ~IsFence(chat[r].script[1]) /\ ~IsFence(chat[r].script[Len(chat[r].script)])

-----------------------------------------------------------------------------
(* Claims about the upload endpoint *)

\* C4: the session pointer changes only inside an upload request that ends
\* with 200: no chat step changes it, and an upload that ends with 400 or 500
\* leaves it as it was before the request.
C4_PointerChangesOnlyOnSuccess ==
    [][ /\ (Pointer' # Pointer => upload' # upload)
        /\ (upload'.pc = "done" /\ upload'.resp.status # 200 => Pointer' = upload'.before)
      ]_vars

\* C8: a failure inside the planner comes back as the error object and is not
\* fatal: get_ai_insights is still called and the upload answers 200 with the
\* error object under charts and the insights.
C8_PlannerFailureNotFatal ==
    /\ (upload.pc = "insights" /\ upload.failed) => upload.charts = ErrorObject
    /\ (upload.pc = "done" /\ upload.failed) =>
            /\ upload.calls = <<"get_ai_visualizations", "get_ai_insights">>
            /\ upload.resp.status = 200
            /\ upload.resp.charts = ErrorObject
            /\ "insights" \in DOMAIN upload.resp

\* an upload whose planner reply did not parse answered 200 with an insight
C8_Witness ==
    /\ upload.pc = "done"
    /\ upload.failed
    /\ upload.resp.status = 200
    /\ upload.resp.charts = ErrorObject
    /\ upload.resp.insights = <<AnInsight>>

-----------------------------------------------------------------------------
(* Claims about chat requests served side by side, checked under Spec *)

HasChild(r) == chat[r].pc \in {"running", "expired", "done"} /\ chat[r].child # NoChild

WriteStep(r) == chat[r].pc = "llm" /\ chat'[r].pc = "written"
SpawnStep(r) == chat[r].pc = "written" /\ chat'[r].pc = "running"

\* no request has written its script while the script of another request
\* waits for its child; requests served one after the other are always so
Uninterleaved ==
    \A r, q \in Workers : chat[r].pc = "written" /\ chat[q].pc = "written" => r = q

RunsOwnScript(r) == HasChild(r) => chat[r].child.script = chat[r].script

\* C11: the script path is one slot shared by all chat requests: only a
\* request's write changes it, the write leaves in it the script of that
\* request, and the child a request starts executes what the slot holds at
\* that moment, whoever wrote it; when no request writes between the write
\* and the spawn of another (as when they are served one at a time), every
\* child executes the script its own request wrote.
C11_SharedScriptSlot ==
    /\ [][ /\ \A r \in Workers : WriteStep(r) => scratch' = chat'[r].script
           /\ \A r \in Workers : SpawnStep(r) => chat'[r].child.script = scratch
           /\ scratch' # scratch => \E r \in Workers : WriteStep(r)
           /\ \A r \in Workers : HasChild(r) /\ HasChild(r)' =>
                    chat'[r].child.script = chat[r].child.script
         ]_vars
    /\ ([]Uninterleaved => [](\A r \in Workers : RunsOwnScript(r)))

\* request 1 wrote its script, request 2 wrote another one over it and has
\* not started its child yet, and request 1 answered 200 with the output of a
\* child that executed the script of request 2
C11_Witness ==
    /\ chat[1].pc = "done"
    /\ chat[1].run.how = "exit"
    /\ chat[1].resp.status = 200
    /\ chat[2].pc = "written"
    /\ chat[1].script # chat[2].script
    /\ chat[1].child.script = chat[2].script
    /\ scratch = chat[2].script

====
